---- MODULE Spec2Model ----
(***************************************************************************)
(* Model of the telemetry API of src/server.js: the four mongoose          *)
(* collections (Conductor, Ritmo, Brujula, Ubicacion), the express route   *)
(* handlers that create and read their documents, the combined "latest"    *)
(* query with its three concurrent lookups, and the bulk purge with its    *)
(* four sequential deletions.                                              *)
(***************************************************************************)
EXTENDS Integers, Sequences, FiniteSets, TLC

VARIABLES db, now, nextId, served, req, res, lectura, purge

vars == <<db, now, nextId, served, req, res, lectura, purge>>

\* Bounds of the model.
MaxRequests == 3   \* requests the server accepts in one run
MaxClock == 1      \* last value of the millisecond clock

Kinds == {"Conductor", "Ritmo", "Brujula", "Ubicacion"}
ReadingKinds == {"Ritmo", "Brujula", "Ubicacion"}
DriverIds == {"D1", "D2"}

(***************************************************************************)
(* JavaScript values of a JSON request body.                               *)
(***************************************************************************)
Undefined == [t |-> "undefined", n |-> 0, s |-> ""]
Null == [t |-> "null", n |-> 0, s |-> ""]
Num(n) == [t |-> "number", n |-> n, s |-> ""]
Str(s) == [t |-> "string", n |-> 0, s |-> s]

\* !v
Falsy(v) ==
  \/ v.t \in {"undefined", "null"}
  \/ v.t = "number" /\ v.n = 0
  \/ v.t = "string" /\ v.s = ""

\* typeof v === "number"
TypeofNumber(v) == v.t = "number"

\* Number(s) on the string literals the requests carry; ok = FALSE is NaN.
StrToNumber(s) ==
  CASE s = "0" -> [ok |-> TRUE, n |-> 0]
    [] s = "12" -> [ok |-> TRUE, n |-> 12]
    [] s = "72" -> [ok |-> TRUE, n |-> 72]
    [] OTHER -> [ok |-> FALSE, n |-> 0]

\* String.prototype.trim on the strings the requests carry.
Trim(s) == IF s = " " THEN "" ELSE s

StoreDown == "store unavailable"

(***************************************************************************)
(* Schema paths: cast, then the required and min validators.               *)
(* The result is [ok, n] or [ok, s]; ok = FALSE makes save() reject.       *)
(***************************************************************************)
\* { type: Number, required: true } with an optional min: 0
NumberPath(v, hasMin) ==
  CASE v.t = "number" -> [ok |-> ~hasMin \/ v.n >= 0, n |-> v.n]
    [] v.t = "string" /\ v.s # "" ->
         LET p == StrToNumber(v.s)
         IN [ok |-> p.ok /\ (~hasMin \/ p.n >= 0), n |-> p.n]
    [] OTHER -> [ok |-> FALSE, n |-> 0]

\* { type: String, required: true } with an optional trim
StringPath(v, trim) ==
  CASE v.t = "string" ->
         LET s == IF trim THEN Trim(v.s) ELSE v.s
         IN [ok |-> s # "", s |-> s]
    [] OTHER -> [ok |-> FALSE, s |-> ""]

\* enum: ["Masculino", "Femenino"]
SexoEnum == {"Masculino", "Femenino"}

\* new Conductor({...}) and the validation save() runs on it
conductorSchema(body, id, t) ==
  LET nombre == StringPath(body.nombre, TRUE)
      edad == NumberPath(body.edad, TRUE)
      sexo == StringPath(body.sexo, FALSE)
      turno == StringPath(body.turno, FALSE)
      enfermedad == StringPath(body.enfermedad, FALSE)
  IN [ok |-> /\ nombre.ok /\ edad.ok /\ sexo.ok /\ turno.ok /\ enfermedad.ok
             /\ sexo.s \in SexoEnum,
      doc |-> [id |-> id, nombre |-> nombre.s, edad |-> edad.n, sexo |-> sexo.s,
               turno |-> turno.s, enfermedad |-> enfermedad.s, createdAt |-> t]]

ritmoSchema(body, id, t) ==
  LET conductorId == StringPath(body.conductorId, FALSE)
      bpm == NumberPath(body.bpm, TRUE)
  IN [ok |-> conductorId.ok /\ bpm.ok,
      doc |-> [id |-> id, conductorId |-> conductorId.s, bpm |-> bpm.n,
               fecha |-> t, createdAt |-> t]]

brujulaSchema(body, id, t) ==
  LET conductorId == StringPath(body.conductorId, FALSE)
      compass == NumberPath(body.compass, FALSE)
  IN [ok |-> conductorId.ok /\ compass.ok,
      doc |-> [id |-> id, conductorId |-> conductorId.s, compass |-> compass.n,
               fecha |-> t, createdAt |-> t]]

ubicacionSchema(body, id, t) ==
  LET conductorId == StringPath(body.conductorId, FALSE)
      latitud == NumberPath(body.latitud, FALSE)
      longitud == NumberPath(body.longitud, FALSE)
  IN [ok |-> conductorId.ok /\ latitud.ok /\ longitud.ok,
      doc |-> [id |-> id, conductorId |-> conductorId.s, latitud |-> latitud.n,
               longitud |-> longitud.n, fecha |-> t, createdAt |-> t]]

(***************************************************************************)
(* Queries.                                                                *)
(***************************************************************************)
Range(s) == {s[i] : i \in DOMAIN s}

\* .sort({ createdAt: 1 }): oldest first.
SortedAsc(s) ==
  LET n == Len(s)
      Perms == {p \in [1..n -> 1..n] : \A i, j \in 1..n : i # j => p[i] # p[j]}
  IN {[i \in 1..n |-> s[p[i]]] : p \in
        {q \in Perms : \A i, j \in 1..n : i < j => s[q[i]].createdAt <= s[q[j]].createdAt}}

\* .sort({ createdAt: -1 }): every order of s with createdAt non-increasing;
\* the order among equal timestamps is the store's choice.
SortedDesc(s) ==
  LET n == Len(s)
      Perms == {p \in [1..n -> 1..n] : \A i, j \in 1..n : i # j => p[i] # p[j]}
  IN {[i \in 1..n |-> s[p[i]]] : p \in
        {q \in Perms : \A i, j \in 1..n : i < j => s[q[i]].createdAt >= s[q[j]].createdAt}}

\* Model.find({ conductorId })
Matches(store, K, d) == SelectSeq(store[K], LAMBDA x : x.conductorId = d)

\* findOne without its filter: the latest document of any driver.
FindOneUnfiltered(K, d) ==
  {IF Len(s) = 0 THEN <<>> ELSE <<s[1]>> : s \in SortedDesc(db[K])}

\* Model.findOne({ conductorId }).sort({ createdAt: -1 }): <<>> is null.
FindOneLatest(K, d) ==
  {IF Len(s) = 0 THEN <<>> ELSE <<s[1]>> : s \in SortedDesc(Matches(db, K, d))}

(***************************************************************************)
(* Bookkeeping of the two multi-step handlers for a write to the store:    *)
(* which kinds received a document after the running purge had emptied     *)
(* them, and whether the driver of the combined query had readings         *)
(* written since the query was issued.                                     *)
(***************************************************************************)
PurgeSees(K) ==
  [purge EXCEPT !.dirty = IF K \in Range(purge.touched) THEN @ \cup {K} ELSE @,
                !.late = @ \/ purge.status = 200]

LecturaSees(store) ==
  [lectura EXCEPT !.dirty = @ \/ (lectura.pc # "idle" /\
       \E K \in ReadingKinds :
          Matches(store, K, lectura.conductorId) # Matches(db, K, lectura.conductorId))]

\* A save that replaces the driver's earlier document of the collection
\* (an upsert keyed by conductorId) rather than inserting.
SaveReplacing(K, doc) ==
  LET kept == SelectSeq(db[K], LAMBDA x : K = "Conductor" \/ x.conductorId # doc.conductorId)
  IN /\ db' = [db EXCEPT ![K] = Append(kept, doc)]
     /\ nextId' = nextId + 1
     /\ purge' = PurgeSees(K)
     /\ lectura' = LecturaSees([db EXCEPT ![K] = Append(kept, doc)])

\* doc.save() that resolves
Save(K, doc) ==
  /\ db' = [db EXCEPT ![K] = Append(@, doc)]
  /\ nextId' = nextId + 1
  /\ purge' = PurgeSees(K)
  /\ lectura' = LecturaSees([db EXCEPT ![K] = Append(@, doc)])

NoWrite == UNCHANGED <<db, nextId, purge, lectura>>

\* A request is accepted by the server.
Accept == served < MaxRequests /\ served' = served + 1

Reply(status, body) == res' = [status |-> status, body |-> body]

Init ==
  /\ db = [K \in Kinds |-> <<>>]
  /\ now = 0
  /\ nextId = 1
  /\ served = 0
  /\ req = [op |-> "none"]
  /\ res = [status |-> 0]
  /\ lectura = [pc |-> "idle", conductorId |-> "D1",
                q |-> [K \in ReadingKinds |-> [st |-> "idle", doc |-> <<>>]],
                status |-> 0, body |-> <<>>, dirty |-> FALSE]
  /\ purge = [pc |-> "idle", touched |-> <<>>, counts |-> <<>>, removed |-> <<>>,
              status |-> 0, body |-> <<>>, dirty |-> {}, late |-> FALSE]

\* Date.now() advances between two events of the process.
Tick ==
  /\ now < MaxClock
  /\ now' = now + 1
  /\ UNCHANGED <<db, nextId, served, req, res, lectura, purge>>

(***************************************************************************)
(* POST handlers.  Each is the whole handler: the presence check, the      *)
(* schema validation of save(), the insert and the response.  save() may   *)
(* also reject because the store is unreachable.                           *)
(***************************************************************************)
\* if (!nombre || !edad || !sexo || !turno || !enfermedad)
ConductorMissing(body) ==
  \/ Falsy(body.nombre) \/ Falsy(body.edad) \/ Falsy(body.sexo)
  \/ Falsy(body.turno) \/ Falsy(body.enfermedad)

\* A presence check by truthiness: if (!conductorId || !bpm)
RitmoMissingTruthy(body) == Falsy(body.conductorId) \/ Falsy(body.bpm)

\* if (!conductorId || typeof bpm !== "number")
RitmoMissing(body) == Falsy(body.conductorId) \/ ~TypeofNumber(body.bpm)

\* if (!conductorId || typeof compass !== "number")
BrujulaMissing(body) == Falsy(body.conductorId) \/ ~TypeofNumber(body.compass)

\* The check without its conductorId operand
UbicacionMissingNoId(body) == body.latitud = Undefined \/ body.longitud = Undefined

\* if (!conductorId || latitud === undefined || longitud === undefined)
UbicacionMissing(body) ==
  Falsy(body.conductorId) \/ body.latitud = Undefined \/ body.longitud = Undefined

\* await doc.save(); res.status(201)...  with the catch block's 500
Create(K, m, created) ==
  IF ~m.ok
  THEN Reply(500, [error |-> "validation failed"]) /\ NoWrite
  ELSE \/ Reply(500, [error |-> StoreDown]) /\ NoWrite
       \/ /\ Save(K, m.doc)
          /\ Reply(201, [message |-> created, data |-> m.doc])

PostConductor(body) ==
  /\ Accept
  /\ req' = [op |-> "POST", kind |-> "Conductor", body |-> body]
  /\ UNCHANGED now
  /\ IF ConductorMissing(body)
     THEN Reply(400, [error |-> "Todos los campos son requeridos"]) /\ NoWrite
     ELSE Create("Conductor", conductorSchema(body, nextId, now), "Conductor creado")

PostRitmo(body) ==
  /\ Accept
  /\ req' = [op |-> "POST", kind |-> "Ritmo", body |-> body]
  /\ UNCHANGED now
  /\ IF RitmoMissing(body)
     THEN Reply(400, [error |-> "conductorId y bpm son requeridos"]) /\ NoWrite
     ELSE Create("Ritmo", ritmoSchema(body, nextId, now), "Ritmo guardado")

PostBrujula(body) ==
  /\ Accept
  /\ req' = [op |-> "POST", kind |-> "Brujula", body |-> body]
  /\ UNCHANGED now
  /\ IF BrujulaMissing(body)
     THEN Reply(400, [error |-> "conductorId y compass son requeridos"]) /\ NoWrite
     ELSE Create("Brujula", brujulaSchema(body, nextId, now), "Brujula guardada")

PostUbicacion(body) ==
  /\ Accept
  /\ req' = [op |-> "POST", kind |-> "Ubicacion", body |-> body]
  /\ UNCHANGED now
  /\ IF UbicacionMissing(body)
     THEN Reply(400, [error |-> "conductorId, latitud y longitud son requeridos"]) /\ NoWrite
     ELSE Create("Ubicacion", ubicacionSchema(body, nextId, now), "Ubicacion guardada")

(***************************************************************************)
(* GET handlers of one lookup.                                             *)
(***************************************************************************)
\* The 404 message of each of the three handlers.
SinLecturas(K) ==
  CASE K = "Ritmo" -> "Sin lecturas de ritmo"
    [] K = "Brujula" -> "Sin lecturas de brujula"
    [] K = "Ubicacion" -> "Sin lecturas de ubicacion"

\* GET /ritmo|brujula|ubicacion/:conductorId/latest
GetLatest(K, d) ==
  /\ Accept
  /\ req' = [op |-> "GET latest", kind |-> K, conductorId |-> d]
  /\ UNCHANGED <<now, db, nextId, purge, lectura>>
  /\ \/ Reply(500, [error |-> StoreDown])
     \/ \E doc \in FindOneLatest(K, d) :
          IF doc = <<>>
          THEN Reply(404, [error |-> SinLecturas(K)])
          ELSE Reply(200, doc[1])

\* const docs = await Model.find().sort({ createdAt: -1 });
\* res.json({ total: docs.length, data: docs })
ListBodies(K) == {[total |-> Len(data), data |-> data] : data \in SortedDesc(db[K])}

\* GET /conductor|ritmo|brujula|ubicacion/all
GetAll(K) ==
  /\ Accept
  /\ req' = [op |-> "GET all", kind |-> K]
  /\ UNCHANGED <<now, db, nextId, purge, lectura>>
  /\ \/ Reply(500, [error |-> StoreDown])
     \/ \E body \in ListBodies(K) : Reply(200, body)

(***************************************************************************)
(* GET /lectura/:conductorId/latest: three lookups handed to Promise.all.  *)
(***************************************************************************)
\* A combinator that fulfils with the first lookup answered.
PromiseFirst(q) ==
  IF \E K \in ReadingKinds : q[K].st = "failed" THEN "rejected"
  ELSE IF \E K \in ReadingKinds : q[K].st = "ok" THEN "fulfilled"
  ELSE "pending"

\* The state of Promise.all over the three lookups.
PromiseAll(q) ==
  IF \E K \in ReadingKinds : q[K].st = "failed" THEN "rejected"
  ELSE IF \A K \in ReadingKinds : q[K].st = "ok" THEN "fulfilled"
  ELSE "pending"

\* The request arrives: the three queries are built and handed to Promise.all.
LecturaIssue(d) ==
  /\ Accept
  /\ lectura.pc \in {"idle", "done"}
  /\ \A K \in ReadingKinds : lectura.q[K].st # "inflight"
  /\ lectura' = [pc |-> "wait", conductorId |-> d,
                 q |-> [K \in ReadingKinds |-> [st |-> "inflight", doc |-> <<>>]],
                 status |-> 0, body |-> <<>>, dirty |-> FALSE]
  /\ UNCHANGED <<db, now, nextId, req, res, purge>>

\* One lookup is answered by the store, or fails.
LecturaLookup(K) ==
  /\ lectura.q[K].st = "inflight"
  /\ \/ lectura' = [lectura EXCEPT !.q[K].st = "failed"]
     \/ \E doc \in FindOneLatest(K, lectura.conductorId) :
          lectura' = [lectura EXCEPT !.q[K] = [st |-> "ok", doc |-> doc]]
  /\ UNCHANGED <<db, now, nextId, served, req, res, purge>>

\* res.json({ conductorId, ritmo: ..., brujula: ..., ubicacion: ... })
LecturaBody(d, ritmo, brujula, ubicacion) ==
  [conductorId |-> d,
   ritmo |-> IF ritmo # <<>>
             THEN <<[bpm |-> ritmo[1].bpm, fecha |-> ritmo[1].fecha]>> ELSE <<>>,
   brujula |-> IF brujula # <<>>
               THEN <<[compass |-> brujula[1].compass, fecha |-> brujula[1].fecha]>> ELSE <<>>,
   ubicacion |-> IF ubicacion # <<>>
                 THEN <<[latitud |-> ubicacion[1].latitud, longitud |-> ubicacion[1].longitud,
                         fecha |-> ubicacion[1].fecha]>>
                 ELSE <<>>]

\* The await returns or throws, and the handler responds.
LecturaRespond ==
  /\ lectura.pc = "wait"
  /\ PromiseAll(lectura.q) # "pending"
  /\ LET ritmo == lectura.q["Ritmo"].doc
         brujula == lectura.q["Brujula"].doc
         ubicacion == lectura.q["Ubicacion"].doc
     IN lectura' =
          IF PromiseAll(lectura.q) = "rejected"
          THEN [lectura EXCEPT !.pc = "done", !.status = 500, !.body = <<[error |-> StoreDown]>>]
          ELSE IF ritmo = <<>> /\ brujula = <<>> /\ ubicacion = <<>>
          THEN [lectura EXCEPT !.pc = "done", !.status = 404,
                               !.body = <<[error |-> "No hay lecturas para este conductor"]>>]
          ELSE [lectura EXCEPT !.pc = "done", !.status = 200,
                  !.body = <<LecturaBody(lectura.conductorId, ritmo, brujula, ubicacion)>>]
  /\ UNCHANGED <<db, now, nextId, served, req, res, purge>>

(***************************************************************************)
(* DELETE /conductor/all: four deleteMany({}) awaited one after another.   *)
(***************************************************************************)
\* The fourth deletion aimed at Brujula again: Ubicacion is never emptied.
PurgeOrderSkipsUbicacion == <<"Conductor", "Ritmo", "Brujula", "Brujula">>

\* The second and third deletions exchanged.
PurgeOrderSwapped == <<"Conductor", "Brujula", "Ritmo", "Ubicacion">>

PurgeOrder == <<"Conductor", "Ritmo", "Brujula", "Ubicacion">>

\* Model.deleteMany({})
DeleteMany(K) == [deletedCount |-> Len(db[K]), after |-> <<>>]

\* res.json({ message, conductoresBorrados, ritmosBorrados, ... })
PurgeBody(counts) ==
  [message |-> "Todos los conductores y lecturas han sido borrados",
   conductoresBorrados |-> counts[1], ritmosBorrados |-> counts[2],
   brujulaBorrados |-> counts[3], ubicacionBorrados |-> counts[4]]

\* The next deleteMany of the handler is executed by the store, or fails; the
\* first one belongs to a request that has just arrived.  After the fourth
\* the handler responds 200; after a failure it responds 500.
PurgeStep ==
  LET p == IF purge.pc = "run" THEN purge
           ELSE [pc |-> "run", touched |-> <<>>, counts |-> <<>>, removed |-> <<>>,
                 status |-> 0, body |-> <<>>, dirty |-> {}, late |-> FALSE]
      K == PurgeOrder[Len(p.touched) + 1]
      r == DeleteMany(K)
      store == [db EXCEPT ![K] = r.after]
      counts == Append(p.counts, r.deletedCount)
  IN /\ IF purge.pc = "run" THEN UNCHANGED served ELSE Accept
     /\ \/ /\ purge' = [p EXCEPT !.pc = "done", !.status = 500,
                                 !.body = <<[error |-> StoreDown]>>]
           /\ UNCHANGED <<db, lectura>>
        \/ /\ db' = store
           /\ lectura' = LecturaSees(store)
           /\ purge' = [p EXCEPT !.touched = Append(@, K),
                                 !.counts = counts,
                                 !.removed = Append(@, Len(db[K]) - Len(store[K])),
                                 !.pc = IF Len(counts) = Len(PurgeOrder) THEN "done" ELSE "run",
                                 !.status = IF Len(counts) = Len(PurgeOrder) THEN 200 ELSE 0,
                                 !.body = IF Len(counts) = Len(PurgeOrder)
                                          THEN <<PurgeBody(counts)>> ELSE <<>>]
     /\ UNCHANGED <<now, nextId, req, res>>

(***************************************************************************)
(* Request bodies.                                                         *)
(***************************************************************************)
ConductorBody(nombre, edad, sexo, turno, enfermedad) ==
  [nombre |-> nombre, edad |-> edad, sexo |-> sexo, turno |-> turno,
   enfermedad |-> enfermedad]

\* A few requests of each route, for the runs that interleave the handlers.
FewConductor ==
  {ConductorBody(Str("Ana"), Num(30), Str("Femenino"), Str("Dia"), Str("Ninguna")),
   ConductorBody(Str("Ana"), Undefined, Str("Femenino"), Str("Dia"), Str("Ninguna"))}
FewIds == {Undefined, Str("D1"), Str("D2")}
FewRitmo == {[conductorId |-> c, bpm |-> Num(72)] : c \in FewIds}
FewBrujula == {[conductorId |-> c, compass |-> Num(90)] : c \in FewIds}
FewUbicacion == {[conductorId |-> c, latitud |-> Num(0), longitud |-> Num(5)] : c \in FewIds}

\* Every handler, interleaved, with a few requests of each route.
Handlers ==
  \/ \E body \in FewConductor : PostConductor(body)
  \/ \E body \in FewRitmo : PostRitmo(body)
  \/ \E body \in {b \in FewBrujula : b.conductorId = Str("D1")} : PostBrujula(body)
  \/ \E body \in {b \in FewUbicacion : b.conductorId = Str("D1")} : PostUbicacion(body)
  \/ \E K \in ReadingKinds : GetLatest(K, "D1")
  \/ \E K \in Kinds : GetAll(K)
  \/ LecturaIssue("D1")
  \/ \E K \in ReadingKinds : LecturaLookup(K)
  \/ LecturaRespond
  \/ PurgeStep

Next == Tick \/ Handlers

Spec == Init /\ [][Next]_vars

\* The handlers with the clock standing still.
SpecFrame == Init /\ [][Handlers]_vars


(***************************************************************************)
(* Driver registration on its own, with every combination of the field     *)
(* values below as request body.                                           *)
(***************************************************************************)
RichConductor ==
  {ConductorBody(nombre, edad, sexo, Str("Dia"), enfermedad) :
     nombre \in {Undefined, Str(" "), Str("Ana")},
     edad \in {Undefined, Num(0), Num(30), Num(-1)},
     sexo \in {Undefined, Str("Masculino"), Str("Femenino"), Str("Otro")},
     enfermedad \in {Str(""), Str("Ninguna")}}

NextConductor ==
  \/ Tick
  \/ \E body \in RichConductor : PostConductor(body)
  \/ GetAll("Conductor")

SpecConductor == Init /\ [][NextConductor]_vars

\* A driver payload that satisfies the data model of the Driver entity.
ValidDriver(body) ==
  /\ body.nombre.t = "string" /\ Trim(body.nombre.s) # ""
  /\ body.edad.t = "number" /\ body.edad.n >= 0
  /\ body.sexo.t = "string" /\ body.sexo.s \in {"Masculino", "Femenino"}
  /\ body.turno.t = "string" /\ body.turno.s # ""
  /\ body.enfermedad.t = "string" /\ body.enfermedad.s # ""

\* C1: a POST /conductor with a payload that is valid under the data model
\* (edad 0 included) is answered 201 unless the store is unreachable, appends
\* the driver, and every GET /conductor/all answered next lists it first.
C1_ValidDriverCreatedAndListedFirst ==
  [][LET body == req'.body IN
       (/\ req'.op = "POST" /\ req'.kind = "Conductor" /\ PostConductor(body)
        /\ ValidDriver(body) /\ res'.body # [error |-> StoreDown])
       => /\ res'.status = 201
          /\ db'["Conductor"] = Append(db["Conductor"], res'.body.data)
          /\ \A data \in SortedDesc(db'["Conductor"]) : data[1] = res'.body.data]_vars


(***************************************************************************)
(* Reading ingestion on its own, with every combination of the field       *)
(* values below as request body.                                           *)
(***************************************************************************)
RichIds == {Undefined, Str(""), Str("D1")}
RichRitmo ==
  {[conductorId |-> c, bpm |-> v] :
     c \in RichIds, v \in {Undefined, Num(0), Num(72), Num(-1), Str("72")}}
RichBrujula ==
  {[conductorId |-> c, compass |-> v] :
     c \in RichIds, v \in {Undefined, Null, Num(0), Str("72")}}
RichUbicacion ==
  {[conductorId |-> c, latitud |-> x, longitud |-> y] :
     c \in RichIds,
     x \in {Undefined, Null, Num(0), Str("12"), Str("abc")},
     y \in {Undefined, Num(0), Num(5), Str("abc")}}

NextLecturas ==
  \/ \E body \in RichRitmo : PostRitmo(body)
  \/ \E body \in RichBrujula : PostBrujula(body)
  \/ \E body \in RichUbicacion : PostUbicacion(body)

SpecLecturas == Init /\ [][NextLecturas]_vars

\* The step handles a POST of kind K; its body is req'.body.
IsPost(K) == req'.op = "POST" /\ req'.kind = K

NonEmptyString(v) == v.t = "string" /\ v.s # ""

\* The step answered 201 and appended the answered document to collection K,
\* or the store was unreachable and nothing was written.
StoredOrStoreDown(K) ==
  \/ res' = [status |-> 500, body |-> [error |-> StoreDown]] /\ db' = db
  \/ /\ res'.status = 201
     /\ db' = [db EXCEPT ![K] = Append(@, res'.body.data)]

\* C2: a reading whose numeric value is exactly 0 (bpm, compass, latitud
\* and/or longitud), sent with a non-empty conductorId, is never rejected as
\* missing: it is answered 201 and stored with the value 0, unless the store
\* is unreachable.
C2_ZeroReadingIsStored ==
  [][/\ LET body == req'.body IN
          (IsPost("Ritmo") /\ PostRitmo(body)
           /\ NonEmptyString(body.conductorId) /\ body.bpm = Num(0))
          => (StoredOrStoreDown("Ritmo") /\ (res'.status = 201 => res'.body.data.bpm = 0))
     /\ LET body == req'.body IN
          (IsPost("Brujula") /\ PostBrujula(body)
           /\ NonEmptyString(body.conductorId) /\ body.compass = Num(0))
          => (StoredOrStoreDown("Brujula") /\ (res'.status = 201 => res'.body.data.compass = 0))
     /\ LET body == req'.body IN
          (/\ IsPost("Ubicacion") /\ PostUbicacion(body) /\ NonEmptyString(body.conductorId)
           /\ body.latitud.t = "number" /\ body.longitud.t = "number"
           /\ (body.latitud = Num(0) \/ body.longitud = Num(0)))
          => /\ StoredOrStoreDown("Ubicacion")
             /\ res'.status = 201 =>
                  /\ res'.body.data.latitud = body.latitud.n
                  /\ res'.body.data.longitud = body.longitud.n]_vars

\* A bpm of 0, a compass of 0 and a latitud of 0 have each been stored.
C2_Witness ==
  /\ req.op = "POST" /\ req.kind = "Ubicacion" /\ res.status = 201
  /\ req.body.latitud = Num(0) /\ res.body.data.latitud = 0
  /\ \E i \in DOMAIN db["Ritmo"] : db["Ritmo"][i].bpm = 0
  /\ res.body.data \in Range(db["Ubicacion"])

\* C3: a reading whose required numeric value is absent or not of number type
\* is answered 400 and nothing is stored.
C3_NonNumberIsRejected400 ==
  [][/\ LET body == req'.body IN
          (IsPost("Ritmo") /\ PostRitmo(body)
           /\ body.bpm.t # "number") => (res'.status = 400 /\ db' = db)
     /\ LET body == req'.body IN
          (IsPost("Brujula") /\ PostBrujula(body)
           /\ body.compass.t # "number") => (res'.status = 400 /\ db' = db)
     /\ LET body == req'.body IN
          (IsPost("Ubicacion") /\ PostUbicacion(body)
           /\ (body.latitud.t # "number" \/ body.longitud.t # "number"))
          => (res'.status = 400 /\ db' = db)]_vars

\* C4: a reading sent without conductorId is answered 400 whatever its other
\* fields hold, and no collection changes.
C4_OmittedConductorIdIs400 ==
  [][/\ LET body == req'.body IN
          (IsPost("Ritmo") /\ PostRitmo(body)
           /\ body.conductorId = Undefined) => (res'.status = 400 /\ db' = db)
     /\ LET body == req'.body IN
          (IsPost("Brujula") /\ PostBrujula(body)
           /\ body.conductorId = Undefined) => (res'.status = 400 /\ db' = db)
     /\ LET body == req'.body IN
          (IsPost("Ubicacion") /\ PostUbicacion(body) /\ body.conductorId = Undefined)
          => (res'.status = 400 /\ db' = db)]_vars

\* A location with valid coordinates and no conductorId was answered 400
\* while readings were stored.
C4_Witness ==
  /\ req.op = "POST" /\ req.kind = "Ubicacion" /\ req.body.conductorId = Undefined
  /\ req.body.latitud = Num(0) /\ req.body.longitud = Num(5)
  /\ res.status = 400
  /\ db["Ritmo"] # <<>> /\ db["Ubicacion"] # <<>>


(***************************************************************************)
(* The latest-reading queries against readings of two drivers recorded at  *)
(* equal and at different times.                                           *)
(***************************************************************************)
NextLatest ==
  \/ Tick
  \/ \E body \in FewRitmo : PostRitmo(body)
  \/ \E body \in FewBrujula : PostBrujula(body)
  \/ \E body \in FewUbicacion : PostUbicacion(body)
  \/ \E K \in ReadingKinds, d \in DriverIds : GetLatest(K, d)
  \/ PurgeStep

SpecLatest == Init /\ [][NextLatest]_vars

\* The stored readings of kind K of driver d.
ReadingsOf(K, d) == {x \in Range(db[K]) : x.conductorId = d}

\* C5: GET /K/d/latest answers 404 when no reading of kind K of driver d is
\* stored; otherwise 200 with one stored reading of kind K of driver d than
\* which no reading of kind K of d was created later (so with one such reading
\* stored, that reading), unless the store is unreachable.
C5_LatestIsNewestOfDriver ==
  [][(/\ req'.op = "GET latest" /\ GetLatest(req'.kind, req'.conductorId)
      /\ res' # [status |-> 500, body |-> [error |-> StoreDown]])
     => LET mine == ReadingsOf(req'.kind, req'.conductorId)
        IN IF mine = {}
           THEN res'.status = 404
           ELSE /\ res'.status = 200
                /\ res'.body \in mine
                /\ \A x \in mine : x.createdAt <= res'.body.createdAt]_vars

\* A latest query answered the newer of two readings of D1 while D2 had none.
C5_Witness ==
  /\ req.op = "GET latest" /\ req.conductorId = "D1" /\ res.status = 200
  /\ res.body \in ReadingsOf(req.kind, "D1")
  /\ \E x \in ReadingsOf(req.kind, "D1") : x.createdAt < res.body.createdAt
  /\ ReadingsOf(req.kind, "D2") = {}


(***************************************************************************)
(* The purge interleaved with creations and list queries.                  *)
(***************************************************************************)
NextPurge ==
  \/ Tick
  \/ \E body \in {b \in FewConductor : ~ConductorMissing(b)} : PostConductor(body)
  \/ \E body \in {b \in FewRitmo : b.conductorId = Str("D1")} : PostRitmo(body)
  \/ \E body \in {b \in FewBrujula : b.conductorId = Str("D1")} : PostBrujula(body)
  \/ \E body \in {b \in FewUbicacion : b.conductorId = Str("D1")} : PostUbicacion(body)
  \/ \E K \in Kinds : GetAll(K)
  \/ PurgeStep

SpecPurge == Init /\ [][NextPurge]_vars

\* Every answer GET /K/all can give now has total 0 and no data.
ListsEmpty(K) == \A body \in ListBodies(K) : body.total = 0 /\ body.data = <<>>

\* C7 as claimed: once the purge has responded 200, and no create has been
\* issued after that response, the list of every kind is empty.
C7_PurgedListsEmpty ==
  (purge.status = 200 /\ ~purge.late) => \A K \in Kinds : ListsEmpty(K)

\* C7 as amended: once the purge has responded 200, the list of every kind
\* that received no document after the purge emptied it is empty.
C7_PurgedListsEmptyUnlessRefilled ==
  purge.status = 200 => \A K \in Kinds \ purge.dirty : ListsEmpty(K)

\* The purge removed a location, no kind was refilled, and GET /ubicacion/all
\* then answered total 0.
C7_Witness ==
  /\ purge.status = 200 /\ purge.dirty = {} /\ purge.removed[4] > 0
  /\ req.op = "GET all" /\ req.kind = "Ubicacion"
  /\ res = [status |-> 200, body |-> [total |-> 0, data |-> <<>>]]

\* The order the purge is said to delete in.
StatedOrder == <<"Conductor", "Ritmo", "Brujula", "Ubicacion">>

\* C10: every step of the purge leaves the kinds it has emptied a prefix of
\* Conductor, Ritmo, Brujula, Ubicacion and changes no collection but the one
\* it has just emptied; a 500 comes with a strict prefix and a step that
\* changed nothing; a 200 comes with all four emptied and with each reported
\* count equal to the number of documents that deletion removed.
C10_PurgeDeletesInOrder ==
  [][PurgeStep =>
       LET n == Len(purge'.touched)
       IN /\ purge'.touched = SubSeq(StatedOrder, 1, n)
          /\ \A K \in Kinds : db'[K] # db[K] =>
               (n > 0 /\ K = StatedOrder[n] /\ db'[K] = <<>> /\ purge'.status # 500)
          /\ purge'.status = 500 => (n < 4 /\ db' = db)
          /\ purge'.status = 200 =>
               /\ n = 4
               /\ purge'.body[1].conductoresBorrados = purge'.removed[1]
               /\ purge'.body[1].ritmosBorrados = purge'.removed[2]
               /\ purge'.body[1].brujulaBorrados = purge'.removed[3]
               /\ purge'.body[1].ubicacionBorrados = purge'.removed[4]]_vars

\* The purge failed at its third deletion after removing a heart-rate
\* reading, and the compass reading is still stored.
C10_Witness ==
  /\ purge.status = 500 /\ Len(purge.touched) = 2 /\ purge.removed[2] > 0
  /\ db["Brujula"] # <<>>


(***************************************************************************)
(* The combined query interleaved with the ingestion of readings.          *)
(***************************************************************************)
NextLectura ==
  \/ Tick
  \/ \E body \in {b \in FewRitmo : b.conductorId # Undefined} : PostRitmo(body)
  \/ \E body \in {b \in FewBrujula : b.conductorId = Str("D1")} : PostBrujula(body)
  \/ \E body \in {b \in FewUbicacion : b.conductorId = Str("D1")} : PostUbicacion(body)
  \/ LecturaIssue("D1")
  \/ \E K \in ReadingKinds : LecturaLookup(K)
  \/ LecturaRespond
  \/ PurgeStep

SpecLectura == Init /\ [][NextLectura]_vars

\* x is a stored reading of kind K of driver d than which none was created later.
IsLatestOf(x, K, d) ==
  x \in ReadingsOf(K, d) /\ \A y \in ReadingsOf(K, d) : y.createdAt <= x.createdAt

\* C6: when GET /lectura/d/latest has answered 200 or 404 and no reading of d
\* was written or removed since the request arrived, the answer is 404 exactly
\* if d has no reading of any kind, and a 200 carries, for each kind, null
\* exactly if d has no reading of that kind and otherwise the value(s) and
\* fecha of a latest reading of that kind of d.
C6_CombinedMatchesStore ==
  (lectura.pc = "done" /\ lectura.status # 500 /\ ~lectura.dirty) =>
    LET d == lectura.conductorId
        body == lectura.body[1]
    IN /\ lectura.status = 404 <=> \A K \in ReadingKinds : ReadingsOf(K, d) = {}
       /\ lectura.status = 200 =>
            /\ body.conductorId = d
            /\ body.ritmo = <<>> <=> ReadingsOf("Ritmo", d) = {}
            /\ body.brujula = <<>> <=> ReadingsOf("Brujula", d) = {}
            /\ body.ubicacion = <<>> <=> ReadingsOf("Ubicacion", d) = {}
            /\ body.ritmo # <<>> =>
                 \E x \in Range(db["Ritmo"]) :
                    /\ IsLatestOf(x, "Ritmo", d)
                    /\ body.ritmo[1] = [bpm |-> x.bpm, fecha |-> x.fecha]
            /\ body.brujula # <<>> =>
                 \E x \in Range(db["Brujula"]) :
                    /\ IsLatestOf(x, "Brujula", d)
                    /\ body.brujula[1] = [compass |-> x.compass, fecha |-> x.fecha]
            /\ body.ubicacion # <<>> =>
                 \E x \in Range(db["Ubicacion"]) :
                    /\ IsLatestOf(x, "Ubicacion", d)
                    /\ body.ubicacion[1] =
                         [latitud |-> x.latitud, longitud |-> x.longitud, fecha |-> x.fecha]

\* D1 has two heart-rate readings and nothing else; the combined query
\* answered the newer one, with brujula and ubicacion null.
C6_Witness ==
  /\ lectura.pc = "done" /\ lectura.status = 200 /\ ~lectura.dirty
  /\ lectura.conductorId = "D1"
  /\ Cardinality(ReadingsOf("Ritmo", "D1")) = 2
  /\ lectura.body[1].ritmo = <<[bpm |-> 72, fecha |-> 1]>>
  /\ lectura.body[1].brujula = <<>> /\ lectura.body[1].ubicacion = <<>>

\* C9 as claimed: once the handler has responded, none of its lookups is
\* still in flight.
C9_NoResponseWhileInFlight ==
  lectura.pc = "done" => \A K \in ReadingKinds : lectura.q[K].st # "inflight"

\* C9 as amended: no lookup is answered before all three are issued; a 200 or
\* 404 is sent only when all three lookups have been answered; a 500 is sent
\* only when a lookup has failed, whether or not the others are still in
\* flight.
C9_RespondsAfterAllOrFirstFailure ==
  /\ \A K, J \in ReadingKinds :
       lectura.q[K].st \in {"ok", "failed"} => lectura.q[J].st # "idle"
  /\ lectura.pc = "wait" => \A K \in ReadingKinds : lectura.q[K].st # "idle"
  /\ (lectura.pc = "done" /\ lectura.status \in {200, 404}) =>
       \A K \in ReadingKinds : lectura.q[K].st = "ok"
  /\ (lectura.pc = "done" /\ lectura.status = 500) =>
       \E K \in ReadingKinds : lectura.q[K].st = "failed"
  /\ lectura.pc = "done" => lectura.status \in {200, 404, 500}

\* A 500 was sent after one lookup failed while the other two were in flight.
C9_Witness ==
  /\ lectura.pc = "done" /\ lectura.status = 500
  /\ Cardinality({K \in ReadingKinds : lectura.q[K].st = "inflight"}) = 2


(***************************************************************************)
(* Frame of the handlers on the four collections.                          *)
(***************************************************************************)
\* The step is the POST handler of kind K serving req'.
PostStep(K) ==
  /\ req'.op = "POST" /\ req'.kind = K
  /\ CASE K = "Conductor" -> PostConductor(req'.body)
       [] K = "Ritmo" -> PostRitmo(req'.body)
       [] K = "Brujula" -> PostBrujula(req'.body)
       [] K = "Ubicacion" -> PostUbicacion(req'.body)

\* The step is a step of one of the GET handlers.
GetStep ==
  \/ req'.op = "GET latest" /\ GetLatest(req'.kind, req'.conductorId)
  \/ req'.op = "GET all" /\ GetAll(req'.kind)
  \/ LecturaIssue(lectura'.conductorId)
  \/ \E K \in ReadingKinds : LecturaLookup(K)
  \/ LecturaRespond

\* C8: in every step each collection either stays as it is, or keeps all its
\* documents unchanged and gains one at the end, which only the POST handler
\* of that kind does and only with a 201, or is emptied, which only the purge
\* does; a POST changes no collection of another kind and a GET changes none.
C8_AppendOnlyUntilPurged ==
  [][/\ \A K \in Kinds :
          \/ db'[K] = db[K]
          \/ /\ Len(db'[K]) = Len(db[K]) + 1
             /\ SubSeq(db'[K], 1, Len(db[K])) = db[K]
             /\ PostStep(K) /\ res'.status = 201
          \/ db'[K] = <<>> /\ PurgeStep
     /\ \A K \in Kinds : (\A J \in Kinds \ {K} : db'[J] = db[J]) \/ ~PostStep(K)
     /\ db' = db \/ ~GetStep]_vars

\* A compass reading was appended after a heart-rate reading of the same
\* driver, which is still stored unchanged, and the combined query has answered.
C8_Witness ==
  /\ req.op = "POST" /\ req.kind = "Brujula" /\ res.status = 201
  /\ Len(db["Brujula"]) = 1 /\ db["Brujula"][1] = res.body.data
  /\ Len(db["Ritmo"]) = 1 /\ db["Ritmo"][1].conductorId = "D1"
  /\ db["Ritmo"][1].id < db["Brujula"][1].id
  /\ lectura.pc = "done" /\ lectura.status = 200

====
